---- MODULE Spec2Model ----
(***************************************************************************)
(* Model of ztron_pdf's core (src/src/core.rs): render_base64_pdf, the     *)
(* page-rendering-and-encoding pipeline, and compress_pdf.                 *)
(*                                                                         *)
(* A process makes up to MaxCalls calls.  render_base64_pdf is modelled    *)
(* statement by statement (validate, decode, bind, load, render each page, *)
(* encode each page, release, return); compress_pdf is one step.           *)
(*                                                                         *)
(* Texts are sequences of base64 symbols: 0..63 are the alphabet's         *)
(* sextets, Pad is '=', anything above Pad is a character outside the      *)
(* alphabet.  Bytes are sequences of 0..255.                               *)
(***************************************************************************)
EXTENDS Integers, Sequences, FiniteSets, TLC

VARIABLES
    pc,            \* position of the process: idle, or inside render_base64_pdf
    args,          \* arguments of the call in progress / last call
    pdf_data,      \* local pdf_data  (Option of bytes)
    pdfium,        \* local pdfium    (Option of binding id)
    document,      \* local document  (Option of document handle)
    rendered_pdf,  \* local rendered_pdf (pixel buffers collected so far)
    images,        \* local images (PageData collected so far)
    result,        \* value returned by the last call
    stages,        \* per call: the external stages invoked, in order
    encoderCalls,  \* per call: the encoder invocations with their parameters
    released,      \* per call: the resources dropped, in order
    calls,         \* number of calls the process has made
    bindCount      \* number of times the process initialized an engine binding

vars == << pc, args, pdf_data, pdfium, document, rendered_pdf, images, result,
           stages, encoderCalls, released, calls, bindCount >>

----------------------------------------------------------------------------
(* Bounds of the model *)

MaxCalls == 2
MaxPages == 3

----------------------------------------------------------------------------
(* base64::engine::general_purpose::STANDARD *)

Pad == 64

RECURSIVE Base64Encode(_)
Base64Encode(b) ==
    IF Len(b) = 0 THEN << >>
    ELSE IF Len(b) = 1 THEN
        << b[1] \div 4, (b[1] % 4) * 16, Pad, Pad >>
    ELSE IF Len(b) = 2 THEN
        << b[1] \div 4, (b[1] % 4) * 16 + (b[2] \div 16), (b[2] % 16) * 4, Pad >>
    ELSE
        << b[1] \div 4,
           (b[1] % 4) * 16 + (b[2] \div 16),
           (b[2] % 16) * 4 + (b[3] \div 64),
           b[3] % 64 >> \o Base64Encode(SubSeq(b, 4, Len(b)))

\* Bytes of one group of four symbols; the last group may be padded.
QuadBytes(q) ==
    IF q[3] = Pad THEN << q[1] * 4 + (q[2] \div 16) >>
    ELSE IF q[4] = Pad THEN
        << q[1] * 4 + (q[2] \div 16), (q[2] % 16) * 16 + (q[3] \div 4) >>
    ELSE
        << q[1] * 4 + (q[2] \div 16),
           (q[2] % 16) * 16 + (q[3] \div 4),
           (q[3] % 4) * 64 + q[4] >>

\* A group is well formed: alphabet symbols only, padding only at the end of
\* the last group, and no non-zero trailing bits before the padding.
QuadValid(q, last) ==
    /\ q[1] < Pad /\ q[2] < Pad
    /\ q[3] <= Pad /\ q[4] <= Pad
    /\ (q[3] = Pad => q[4] = Pad)
    /\ (q[4] = Pad => last)
    /\ (q[3] = Pad => q[2] % 16 = 0)
    /\ (q[3] # Pad /\ q[4] = Pad => q[3] % 4 = 0)

RECURSIVE Base64DecodeBytes(_)
Base64DecodeBytes(s) ==
    IF Len(s) = 0 THEN << >>
    ELSE QuadBytes(SubSeq(s, 1, 4)) \o Base64DecodeBytes(SubSeq(s, 5, Len(s)))

Base64Valid(s) ==
    /\ Len(s) % 4 = 0
    /\ \A g \in 1..(Len(s) \div 4) :
          QuadValid(SubSeq(s, 4 * g - 3, 4 * g), g = Len(s) \div 4)

Base64Decode(s) ==
    IF Base64Valid(s) THEN [ok |-> TRUE, bytes |-> Base64DecodeBytes(s)]
    ELSE [ok |-> FALSE, bytes |-> << >>]

----------------------------------------------------------------------------
(* The external collaborators: the PDF engine and the image encoders.      *)
(* A PDF is the byte 37 ('%') followed by one byte per page.  Page byte 0  *)
(* is a page the engine cannot rasterize, page byte 1 rasterizes to a      *)
(* buffer the encoders reject, every other page byte is a page's content.  *)

PageBytes == 0..3

\* Pdfium::load_pdf_from_byte_slice
LoadPdf(bytes) ==
    IF Len(bytes) >= 1 /\ bytes[1] = 37
    THEN [ok |-> TRUE, pages |-> Tail(bytes)]
    ELSE [ok |-> FALSE, pages |-> << >>]

\* page.render_with_config(..).map(|bitmap| bitmap.as_image().into_rgb8())
PageRenders(page) == page # 0

RenderPageBitmap(page, max_edge_size) ==
    [pixels |-> page, edge |-> max_edge_size]

BitmapEncodes(bitmap) == bitmap.pixels # 1

\* The quality the image crate's JPEG encoder uses when none is given.
JpegDefaultQuality == 75

\* The quality parameter each encoder is invoked with (none for PNG).
EncoderQuality(format, quality) ==
    IF format = "JPEG" THEN << JpegDefaultQuality >>
    ELSE IF format = "PNG" THEN << >>
    ELSE << quality >>

EncoderCall(format, quality) ==
    [encoder |-> format, quality |-> EncoderQuality(format, quality)]

\* The encoded image: a magic byte of the format, the encoder's quality
\* parameter, and the pixel data with its size.
FormatMagic(format) ==
    IF format = "JPEG" THEN 255 ELSE IF format = "PNG" THEN 137 ELSE 82

EncodeImage(format, quality, bitmap) ==
    << FormatMagic(format) >> \o EncoderQuality(format, quality)
        \o << bitmap.pixels, bitmap.edge \div 256, bitmap.edge % 256 >>

EncodeErrorPrefix(format) ==
    IF format = "JPEG" THEN "Failed to write JPEG image: "
    ELSE IF format = "PNG" THEN "Failed to write PNG image: "
    ELSE "Failed to create WebP encoder: "

PageDataOf(format, quality, bitmap) ==
    [base64_image |-> Base64Encode(EncodeImage(format, quality, bitmap))]

----------------------------------------------------------------------------
(* Inputs *)

Formats == {"JPEG", "PNG", "WEBP"}

\* quality: u8
QualityValues == {0, 1, 75, 100, 101, 255}

\* max_edge_size: i32
EdgeValues == {-1, 0, 1, 100, 10000, 10001}

RECURSIVE SeqsUpTo(_, _)
SeqsUpTo(S, n) ==
    IF n = 0 THEN { << >> }
    ELSE LET shorter == SeqsUpTo(S, n - 1)
         IN  shorter \cup { Append(t, x) : t \in shorter, x \in S }

PdfFiles == { << 37 >> \o p : p \in SeqsUpTo(PageBytes, MaxPages) }

\* base64 of every PDF, base64 of bytes that are no PDF, and three texts
\* that are not base64 (bad length, a character outside the alphabet,
\* non-zero trailing bits).
Payloads ==
    { Base64Encode(f) : f \in PdfFiles }
        \cup { Base64Encode(<< 1, 2 >>), << 9 >>, << 65, 0, 0, 0 >>, << 9, 1, Pad, Pad >> }

----------------------------------------------------------------------------
(* Values *)

None == << >>
Some(x) == << x >>

NoResult == [ok |-> FALSE, value |-> << >>, err |-> << >>]
Ok(v) == [ok |-> TRUE, value |-> v, err |-> << >>]
Err(prefix, cause) == [ok |-> FALSE, value |-> << >>, err |-> << prefix, cause >>]

QualityMessage == "Quality must be between 0 and 100"
EdgeMessage == "max_edge_size must be between 1 and 10000"
CompressQualityMessage == "Quality must be between 1 and 100"

\* The validator of render_base64_pdf: the error it returns, or None.
ValidateParams_RejectsZero(quality, max_edge_size) ==
    IF quality = 0 \/ quality > 100 THEN Some(QualityMessage)
    ELSE IF max_edge_size <= 0 \/ max_edge_size > 10000 THEN Some(EdgeMessage)
    ELSE None

ValidateParams_EdgeOffByOne(quality, max_edge_size) ==
    IF quality > 100 THEN Some(QualityMessage)
    ELSE IF max_edge_size < 0 \/ max_edge_size > 10000 THEN Some(EdgeMessage)
    ELSE None

ValidateParams(quality, max_edge_size) ==
    IF quality > 100 THEN Some(QualityMessage)
    ELSE IF max_edge_size <= 0 \/ max_edge_size > 10000 THEN Some(EdgeMessage)
    ELSE None

\* `.collect::<Result<Vec<_>, String>>()?` on the first failing item: the
\* items collected so far are discarded and the error is returned.
FailFast_KeepsPartial(partial, prefix, cause) ==
    [ok |-> FALSE, value |-> partial, err |-> << prefix, cause >>]

FailFast(partial, prefix, cause) == Err(prefix, cause)

\* The locals dropped when the function is left, in drop order:
\* rendered_pdf (its buffers in order), document, pdfium, pdf_data.
Drop(kind, idx) == [kind |-> kind, idx |-> idx]

DropLocals_BindingFirst(nBitmaps, hasDocument, hasPdfium, hasData) ==
    (IF hasPdfium THEN << Drop("pdfium", 0) >> ELSE << >>)
        \o [i \in 1..nBitmaps |-> Drop("bitmap", i)]
        \o (IF hasDocument THEN << Drop("document", 0) >> ELSE << >>)
        \o (IF hasData THEN << Drop("pdf_data", 0) >> ELSE << >>)

DropLocals(nBitmaps, hasDocument, hasPdfium, hasData) ==
    [i \in 1..nBitmaps |-> Drop("bitmap", i)]
        \o (IF hasDocument THEN << Drop("document", 0) >> ELSE << >>)
        \o (IF hasPdfium THEN << Drop("pdfium", 0) >> ELSE << >>)
        \o (IF hasData THEN << Drop("pdf_data", 0) >> ELSE << >>)

\* compress_pdf
compress_pdf_AcceptsZero(base64_pdf, quality) ==
    IF quality > 100 THEN Err(CompressQualityMessage, "")
    ELSE Ok(base64_pdf)

compress_pdf(base64_pdf, quality) ==
    IF quality = 0 \/ quality > 100 THEN Err(CompressQualityMessage, "")
    ELSE Ok(base64_pdf)

----------------------------------------------------------------------------
(* The process *)

NoArgs ==
    [fn |-> "none", base64_pdf |-> << >>, format |-> "JPEG",
     quality |-> 0, max_edge_size |-> 0]

Init ==
    /\ pc = "idle"
    /\ args = NoArgs
    /\ pdf_data = None
    /\ pdfium = None
    /\ document = None
    /\ rendered_pdf = << >>
    /\ images = << >>
    /\ result = NoResult
    /\ stages = << >>
    /\ encoderCalls = << >>
    /\ released = << >>
    /\ calls = 0
    /\ bindCount = 0

CanCall == pc = "idle" /\ calls < MaxCalls

\* The caller enters render_base64_pdf: fresh locals, nothing done yet.
CallRender(base64_pdf, format, quality, max_edge_size) ==
    /\ CanCall
    /\ pc' = "validate"
    /\ args' = [fn |-> "render_base64_pdf", base64_pdf |-> base64_pdf,
                format |-> format, quality |-> quality,
                max_edge_size |-> max_edge_size]
    /\ pdf_data' = None
    /\ pdfium' = None
    /\ document' = None
    /\ rendered_pdf' = << >>
    /\ images' = << >>
    /\ result' = NoResult
    /\ stages' = << >>
    /\ encoderCalls' = << >>
    /\ released' = << >>
    /\ calls' = calls + 1
    /\ UNCHANGED bindCount

\* Leaving the function with an error: the live locals are dropped.
Leave(res) ==
    /\ pc' = "done"
    /\ result' = res
    /\ released' = released \o DropLocals(Len(rendered_pdf), document # None,
                                          pdfium # None, pdf_data # None)
    /\ pdf_data' = None
    /\ pdfium' = None
    /\ document' = None
    /\ rendered_pdf' = << >>
    /\ images' = << >>

\* core.rs 41-46
Validate_ContinuesOnError ==
    /\ pc = "validate"
    /\ pc' = "decode"
    /\ LET e == ValidateParams(args.quality, args.max_edge_size)
       IN  result' = IF e # None THEN Err(e[1], "") ELSE result
    /\ UNCHANGED << args, pdf_data, pdfium, document, rendered_pdf, images,
                    stages, encoderCalls, released, calls, bindCount >>

Validate ==
    /\ pc = "validate"
    /\ LET e == ValidateParams(args.quality, args.max_edge_size)
       IN  IF e # None
           THEN /\ Leave(Err(e[1], ""))
                /\ UNCHANGED << args, stages, encoderCalls, calls, bindCount >>
           ELSE /\ pc' = "decode"
                /\ UNCHANGED << args, pdf_data, pdfium, document, rendered_pdf,
                                images, result, stages, encoderCalls, released,
                                calls, bindCount >>

\* core.rs 48-49
Decode ==
    /\ pc = "decode"
    /\ stages' = Append(stages, "decode")
    /\ LET d == Base64Decode(args.base64_pdf)
       IN  IF d.ok
           THEN /\ pdf_data' = Some(d.bytes)
                /\ pc' = "bind"
                /\ UNCHANGED << pdfium, document, rendered_pdf, images, result,
                                released >>
           ELSE Leave(Err("Invalid base64 input: ", "DecodeError"))
    /\ UNCHANGED << args, encoderCalls, calls, bindCount >>

\* core.rs 51-55: the library is bound and initialized, or cannot be found.
Bind ==
    /\ pc = "bind"
    /\ stages' = Append(stages, "bind")
    /\ \E found \in BOOLEAN :
          IF found
          THEN /\ bindCount' = bindCount + 1
               /\ pdfium' = Some(bindCount + 1)
               /\ pc' = "load"
               /\ UNCHANGED << pdf_data, document, rendered_pdf, images, result,
                               released >>
          ELSE /\ Leave(Err("Failed to bind to Pdfium library: ", "LoadLibraryError"))
               /\ UNCHANGED bindCount
    /\ UNCHANGED << args, encoderCalls, calls >>

\* core.rs 57-59
Load ==
    /\ pc = "load"
    /\ stages' = Append(stages, "load")
    /\ LET d == LoadPdf(pdf_data[1])
       IN  IF d.ok
           THEN /\ document' = Some([pages |-> d.pages, binding |-> pdfium[1]])
                /\ pc' = "render"
                /\ UNCHANGED << pdf_data, pdfium, rendered_pdf, images, result,
                                released >>
           ELSE Leave(Err("Failed to load PDF: ", "FormatError"))
    /\ UNCHANGED << args, encoderCalls, calls, bindCount >>

\* core.rs 61-76, one page of the iterator
RenderPage ==
    /\ pc = "render"
    /\ Len(rendered_pdf) < Len(document[1].pages)
    /\ stages' = Append(stages, "render")
    /\ LET page == document[1].pages[Len(rendered_pdf) + 1]
       IN  IF PageRenders(page)
           THEN /\ rendered_pdf' =
                      Append(rendered_pdf, RenderPageBitmap(page, args.max_edge_size))
                /\ UNCHANGED << pc, pdf_data, pdfium, document, images, result,
                                released >>
           ELSE Leave(FailFast(rendered_pdf, "Failed to render PDF page: ",
                               "PdfiumLibraryInternalError"))
    /\ UNCHANGED << args, encoderCalls, calls, bindCount >>

\* core.rs 76: every page is collected
RenderCollected ==
    /\ pc = "render"
    /\ Len(rendered_pdf) = Len(document[1].pages)
    /\ pc' = "encode"
    /\ UNCHANGED << args, pdf_data, pdfium, document, rendered_pdf, images,
                    result, stages, encoderCalls, released, calls, bindCount >>

\* core.rs 78-122, one pixel buffer of the iterator
EncodePage_Reversed ==
    /\ pc = "encode"
    /\ Len(images) < Len(rendered_pdf)
    /\ stages' = Append(stages, "encode")
    /\ LET bitmap == rendered_pdf[Len(rendered_pdf) - Len(images)]
       IN  IF BitmapEncodes(bitmap)
           THEN /\ encoderCalls' =
                      Append(encoderCalls, EncoderCall(args.format, args.quality))
                /\ images' =
                      Append(images, PageDataOf(args.format, args.quality, bitmap))
                /\ UNCHANGED << pc, pdf_data, pdfium, document, rendered_pdf,
                                result, released >>
           ELSE /\ encoderCalls' = encoderCalls
                /\ Leave(FailFast(images, EncodeErrorPrefix(args.format),
                                  "EncodingError"))
    /\ UNCHANGED << args, calls, bindCount >>

EncodePage ==
    /\ pc = "encode"
    /\ Len(images) < Len(rendered_pdf)
    /\ stages' = Append(stages, "encode")
    /\ LET bitmap == rendered_pdf[Len(images) + 1]
       IN  IF BitmapEncodes(bitmap)
           THEN /\ encoderCalls' =
                      Append(encoderCalls, EncoderCall(args.format, args.quality))
                /\ images' =
                      Append(images, PageDataOf(args.format, args.quality, bitmap))
                /\ UNCHANGED << pc, pdf_data, pdfium, document, rendered_pdf,
                                result, released >>
           ELSE \* the WebP encoder is never constructed; the others are
                \* invoked and fail
                /\ encoderCalls' =
                      IF args.format = "WEBP" THEN encoderCalls
                      ELSE Append(encoderCalls, EncoderCall(args.format, args.quality))
                /\ Leave(FailFast(images, EncodeErrorPrefix(args.format),
                                  "EncodingError"))
    /\ UNCHANGED << args, calls, bindCount >>

\* core.rs 122-129: every image is collected, the locals are dropped and the
\* images returned
Return ==
    /\ pc = "encode"
    /\ Len(images) = Len(rendered_pdf)
    /\ Leave(Ok(images))
    /\ UNCHANGED << args, stages, encoderCalls, calls, bindCount >>

\* compress_pdf, core.rs 142-152
CallCompress(base64_pdf, quality) ==
    /\ CanCall
    /\ pc' = "done"
    /\ args' = [fn |-> "compress_pdf", base64_pdf |-> base64_pdf,
                format |-> "JPEG", quality |-> quality, max_edge_size |-> 0]
    /\ result' = compress_pdf(base64_pdf, quality)
    /\ pdf_data' = None
    /\ pdfium' = None
    /\ document' = None
    /\ rendered_pdf' = << >>
    /\ images' = << >>
    /\ stages' = << >>
    /\ encoderCalls' = << >>
    /\ released' = << >>
    /\ calls' = calls + 1
    /\ UNCHANGED bindCount

\* The caller has the returned value and goes on; the value is dropped.
CallerContinues ==
    /\ pc = "done"
    /\ pc' = "idle"
    /\ args' = NoArgs
    /\ result' = NoResult
    /\ stages' = << >>
    /\ encoderCalls' = << >>
    /\ released' = << >>
    /\ UNCHANGED << pdf_data, pdfium, document, rendered_pdf, images, calls,
                    bindCount >>

Next ==
    \/ /\ CanCall
       /\ \E p \in Payloads, f \in Formats, q \in QualityValues, e \in EdgeValues :
             CallRender(p, f, q, e)
    \/ /\ CanCall
       /\ \E p \in Payloads, q \in QualityValues : CallCompress(p, q)
    \/ Validate
    \/ Decode
    \/ Bind
    \/ Load
    \/ RenderPage
    \/ RenderCollected
    \/ EncodePage
    \/ Return
    \/ CallerContinues

Spec == Init /\ [][Next]_vars

----------------------------------------------------------------------------
(* Vocabulary of the properties *)

InRender == args.fn = "render_base64_pdf"
InCompress == args.fn = "compress_pdf"
Returned == pc = "done"

Range(f) == { f[i] : i \in DOMAIN f }
Count(f, x) == Cardinality({ i \in DOMAIN f : f[i] = x })

\* The document the call's payload holds, when it holds one.
ArgBytes == Base64Decode(args.base64_pdf)
ArgIsPdf == ArgBytes.ok /\ LoadPdf(ArgBytes.bytes).ok
ArgPages == LoadPdf(ArgBytes.bytes).pages

QualityInRange == args.quality \in 1..100
EdgeInRange == args.max_edge_size \in 1..10000

IsValidationError(r) ==
    /\ ~r.ok
    /\ r.value = << >>
    /\ r.err \in { << QualityMessage, "" >>, << EdgeMessage, "" >> }

\* The document of the call was loaded (decode, bind and load succeeded).
DocumentLoaded == Len(stages) >= 3 /\ stages[3] = "load" /\ ArgIsPdf

\* 1-based position of the first page the engine cannot rasterize, 0 if none.
FirstFailingPage ==
    LET bad == { i \in DOMAIN ArgPages : ~PageRenders(ArgPages[i]) }
    IN  IF bad = {} THEN 0 ELSE CHOOSE i \in bad : \A j \in bad : i <= j

\* An error value carries page index k when k is one of its components.
CarriesPageIndex(r, k) == \E j \in DOMAIN r.err : r.err[j] = ToString(k)

Positions(kind) == { i \in DOMAIN released : released[i].kind = kind }

----------------------------------------------------------------------------
(* C1 *)

\* C1 (as stated): a call with quality outside 1..100 (quality = 0 or
\* quality in 101..255) returns a validation error, whatever the other
\* arguments are.
C1_Original ==
    (Returned /\ InRender /\ ~QualityInRange) => IsValidationError(result)

\* C1 (amended): the call returns the quality validation error exactly when
\* quality is in 101..255, whatever the payload, format and max_edge_size
\* are; quality = 0 is not rejected for its quality.
C1_QualityAbove100Rejected ==
    (Returned /\ InRender) =>
        /\ (args.quality > 100 => result = Err(QualityMessage, ""))
        /\ (args.quality <= 100 => (result.err = << >> \/ result.err[1] # QualityMessage))

C1_Witness ==
    /\ Returned /\ InRender
    /\ args.quality = 255
    /\ ~EdgeInRange
    /\ ~ArgBytes.ok
    /\ result = Err(QualityMessage, "")

(* C2 *)

\* C2: a call with max_edge_size outside 1..10000 returns a validation
\* error, and a call with quality and max_edge_size both in range does not
\* return a validation error.
C2_EdgeValidated ==
    (Returned /\ InRender) =>
        /\ (~EdgeInRange => IsValidationError(result))
        /\ ((QualityInRange /\ EdgeInRange) => ~IsValidationError(result))

C2_Witness ==
    /\ Returned /\ InRender
    /\ args.max_edge_size = 10001
    /\ QualityInRange
    /\ ArgIsPdf
    /\ result = Err(EdgeMessage, "")

(* C3 *)

\* C3: in a call whose parameters fail validation, once validation has run
\* the call has returned the validation error, and no later stage has run:
\* nothing decoded, no engine bound, no document loaded, no page rendered
\* or encoded.
C3_NoStageAfterFailedValidation ==
    (InRender /\ pc # "validate" /\ (args.quality > 100 \/ ~EdgeInRange)) =>
        /\ Returned
        /\ IsValidationError(result)
        /\ stages = << >>
        /\ encoderCalls = << >>
        /\ released = << >>
        /\ pdf_data = None /\ pdfium = None /\ document = None
        /\ rendered_pdf = << >> /\ images = << >>

C3_Witness ==
    /\ Returned /\ InRender
    /\ ~EdgeInRange
    /\ ArgIsPdf /\ Len(ArgPages) = MaxPages /\ FirstFailingPage = 0
    /\ IsValidationError(result)
    /\ stages = << >>

(* C4 *)

\* C4: a successful call on a document of n pages returns exactly n entries,
\* and entry i decodes from base64 to the encoding of the rendering of source
\* page i.
C4_OnePageResultPerPageInOrder ==
    (Returned /\ InRender /\ result.ok) =>
        /\ ArgIsPdf
        /\ Len(result.value) = Len(ArgPages)
        /\ \A i \in DOMAIN ArgPages :
              Base64Decode(result.value[i].base64_image) =
                  [ok |-> TRUE,
                   bytes |-> EncodeImage(args.format, args.quality,
                                RenderPageBitmap(ArgPages[i], args.max_edge_size))]

C4_Witness ==
    /\ Returned /\ InRender /\ result.ok
    /\ Len(result.value) = MaxPages
    /\ MaxPages >= 2
    /\ ArgPages[1] # ArgPages[2]

(* C5 *)

\* C5: if rendering or encoding fails on a page of the loaded document, the
\* call returns an error and no page result at all.
C5_AllOrNothing ==
    (/\ Returned /\ InRender /\ DocumentLoaded
     /\ \E i \in DOMAIN ArgPages :
           \/ ~PageRenders(ArgPages[i])
           \/ ~BitmapEncodes(RenderPageBitmap(ArgPages[i], args.max_edge_size)))
    => (~result.ok /\ result.value = << >> /\ result.err # << >>)

\* a page was encoded successfully before a later page failed to encode
C5_Witness ==
    /\ Returned /\ InRender /\ DocumentLoaded
    /\ args.format = "WEBP"
    /\ Len(encoderCalls) >= 1
    /\ Count(stages, "encode") = Len(encoderCalls) + 1
    /\ ~result.ok /\ result.value = << >>

(* C6 *)

\* C6: when page k (0-based) is the first page whose
\* rasterization fails, the call fails with a page render error that carries
\* page_index = k.
C6_Original ==
    (/\ Returned /\ InRender /\ QualityInRange /\ EdgeInRange
     /\ DocumentLoaded /\ FirstFailingPage # 0) =>
        /\ ~result.ok
        /\ result.err[1] = "Failed to render PDF page: "
        /\ CarriesPageIndex(result, FirstFailingPage - 1)

(* C7 *)

\* C7: when the format is JPEG, the quality handed to the encoder for every
\* page equals the caller's quality argument.
C7_Original ==
    (/\ InRender /\ args.format = "JPEG" /\ QualityInRange /\ EdgeInRange
     /\ ArgIsPdf /\ \A i \in DOMAIN ArgPages : ArgPages[i] \notin {0, 1}) =>
        \A i \in DOMAIN encoderCalls :
            /\ encoderCalls[i].encoder = "JPEG"
            /\ encoderCalls[i].quality = << args.quality >>

(* C8 *)

\* C8: on every exit taken after the document was loaded, the document
\* handle is released exactly once, at the return and not before; every pixel
\* buffer produced is released before the document handle, and the document
\* handle before the engine binding.
C8_NestedRelease ==
    /\ (InRender /\ ~Returned) => released = << >>
    /\ (InRender /\ pc \in {"render", "encode"}) => (document # None /\ pdfium # None)
    /\ (Returned /\ InRender /\ DocumentLoaded) =>
          /\ document = None /\ pdfium = None /\ rendered_pdf = << >>
          /\ Cardinality(Positions("document")) = 1
          /\ Cardinality(Positions("pdfium")) = 1
          /\ { released[i].idx : i \in Positions("bitmap") } =
                1..(IF FirstFailingPage = 0 THEN Len(ArgPages)
                    ELSE FirstFailingPage - 1)
          /\ Cardinality(Positions("bitmap")) =
                (IF FirstFailingPage = 0 THEN Len(ArgPages)
                 ELSE FirstFailingPage - 1)
          /\ \A b \in Positions("bitmap"), d \in Positions("document") : b < d
          /\ \A d \in Positions("document"), e \in Positions("pdfium") : d < e

\* an encode failure after two pages were rasterized
C8_Witness ==
    /\ Returned /\ InRender /\ DocumentLoaded
    /\ ~result.ok
    /\ Count(stages, "encode") >= 1
    /\ Cardinality(Positions("bitmap")) >= 2
    /\ Cardinality(Positions("document")) = 1

(* C9 *)

C10_Original == bindCount <= 1

====
